---------------------------- MODULE Spec2Model ----------------------------
(***************************************************************************)
(* Model of bin/Xnat_tools/xnat_tools_utils.py (Python 2): the helper      *)
(* functions shared by the Xnat command-line tools.                        *)
(*                                                                         *)
(* A Python str is a sequence of one-character strings; a Python value is  *)
(* a record tagged with its type.  A finished call is described by fn (the *)
(* function), args (its arguments), ret (what it returned or raised) and   *)
(* out (what it printed).  prompt_user_yes_no and run_tool run step by     *)
(* step, pc holding the line they are at.                                  *)
(***************************************************************************)
EXTENDS Integers, Sequences, FiniteSets, TLC

VARIABLES fn, args, ret, out, inner, fs, fsops, pc, value, answers, events, parsed, run

vars == <<fn, args, ret, out, inner, fs, fsops, pc, value, answers, events, parsed, run>>

(***************************************************************************)
(* Bounds of the model.                                                    *)
(***************************************************************************)
MaxTextLen == 62
MaxNameLen == 66
MaxLeftSpaces == 3
MaxOptionLen == 3
MaxValueLen == 47
MaxAnswers == 3
MaxFileLen == 4
MaxCsvLines == 2

(***************************************************************************)
(* Python values.                                                          *)
(***************************************************************************)
PyNone == [t |-> "None"]
PyStr(s) == [t |-> "str", v |-> s]
PyBool(b) == [t |-> "bool", v |-> b]
PyInt(n) == [t |-> "int", v |-> n]
PyList(l) == [t |-> "list", v |-> l]
PyTuple(l) == [t |-> "tuple", v |-> l]
PyFunction == [t |-> "function"]

\* Python's truth value of an object, as in "if value:".
Truthy(x) ==
    CASE x.t = "None" -> FALSE
      [] x.t = "bool" -> x.v
      [] x.t = "int" -> x.v # 0
      [] x.t = "function" -> TRUE
      [] OTHER -> Len(x.v) > 0

Return(v) == [kind |-> "return", val |-> v]
Raise(e, exe) == [kind |-> "raise", exc |-> e, exe |-> exe]

NoArgs == [none |-> TRUE]
NoInner == [none |-> TRUE]

(***************************************************************************)
(* str operations.                                                         *)
(***************************************************************************)
\* s * n: n copies of s, the empty str when n <= 0.
RECURSIVE Rep(_, _)
Rep(s, n) == IF n <= 0 THEN <<>> ELSE s \o Rep(s, n - 1)

\* s[:-1]
DropLast(s) == IF Len(s) = 0 THEN <<>> ELSE SubSeq(s, 1, Len(s) - 1)

\* s[-n:] for n > 0
LastChars(s, n) == IF Len(s) <= n THEN s ELSE SubSeq(s, Len(s) - n + 1, Len(s))

\* s[:n] for n >= 0
FirstChars(s, n) == IF Len(s) <= n THEN s ELSE SubSeq(s, 1, n)

\* fmt % args, for a format whose only conversions are %s: fmt is a sequence
\* of characters and "%s" conversions.
RECURSIVE PyFormat(_, _)
PyFormat(fmt, fargs) ==
    IF fmt = <<>> THEN <<>>
    ELSE IF Head(fmt) = "%s" THEN Head(fargs) \o PyFormat(Tail(fmt), Tail(fargs))
    ELSE <<Head(fmt)>> \o PyFormat(Tail(fmt), fargs)

\* '%*s' % (-w, s): s left-justified in a field of at least w characters.
Ljust(s, w) == s \o Rep(<<" ">>, w - Len(s))

\* sep.join(strs)
RECURSIVE Join(_, _)
Join(sep, strs) ==
    IF strs = <<>> THEN <<>>
    ELSE IF Len(strs) = 1 THEN strs[1]
    ELSE strs[1] \o sep \o Join(sep, Tail(strs))

\* s.split(c): the pieces of s between the occurrences of the character c.
RECURSIVE Split(_, _)
Split(s, c) ==
    IF \A i \in 1..Len(s) : s[i] # c THEN <<s>>
    ELSE LET i == CHOOSE k \in 1..Len(s) : s[k] = c /\ \A j \in 1..(k - 1) : s[j] # c
         IN <<SubSeq(s, 1, i - 1)>> \o Split(SubSeq(s, i + 1, Len(s)), c)

\* s.replace(a, b) for single characters a and b.
Replace(s, a, b) == [i \in 1..Len(s) |-> IF s[i] = a THEN b ELSE s[i]]

UpperCase == <<"Y", "E", "S", "N", "O">>
LowerCase == <<"y", "e", "s", "n", "o">>

\* s.lower()
LowerChar(c) ==
    IF \E i \in 1..Len(UpperCase) : UpperCase[i] = c
    THEN LowerCase[CHOOSE i \in 1..Len(UpperCase) : UpperCase[i] = c]
    ELSE c
Lower(s) == [i \in 1..Len(s) |-> LowerChar(s[i])]

WhiteSpace == {" ", "\n", "\t"}

\* s.strip()
RECURSIVE LStrip(_)
LStrip(s) == IF s # <<>> /\ Head(s) \in WhiteSpace THEN LStrip(Tail(s)) ELSE s
RECURSIVE RStrip(_)
RStrip(s) == IF s # <<>> /\ s[Len(s)] \in WhiteSpace THEN RStrip(DropLast(s)) ELSE s
Strip(s) == RStrip(LStrip(s))

(***************************************************************************)
(* Module constants (lines 19-34).                                         *)
(***************************************************************************)
LENGTH == 64

\* The default sformat of edit_string_size, '# %s%s #', and print_end's.
DefaultFormat == <<"#", " ", "%s", "%s", " ", "#">>
DoneFormat == <<"%s", " ", "D", "O", "N", "E", " ", "%s">>
Space == <<" ">>

(***************************************************************************)
(* edit_string_size (lines 143-170).  The else branch names the variable   *)
(* string, which is local to the function (the for loop assigns it) and    *)
(* unbound there: evaluating type(string) raises UnboundLocalError before  *)
(* XnatToolsError is constructed.                                          *)
(***************************************************************************)
EditStr(text, max_length, left_spaces, sformat, symbol) ==
    LET lsp == Rep(symbol, left_spaces)
        _lspaces == IF symbol # Space THEN DropLast(lsp) \o Space ELSE lsp
        _str == _lspaces \o text
        _space == max_length - Len(_str)
    IN PyFormat(sformat, <<_str, Rep(symbol, _space)>>)

RECURSIVE edit_string_size(_, _, _, _, _)
RECURSIVE EditList(_, _, _, _)
\* The loop of lines 162-166 from element i on, new_strings holding the
\* lines so far: the joined lines, or the first error an element raises.
EditList(strings, i, new_strings, p) ==
    IF i > Len(strings) THEN Return(PyStr(Join(<<"\n">>, new_strings)))
    ELSE LET r == edit_string_size(strings[i], p.max_length, p.left_spaces,
                                   DefaultFormat, Space)
         IN IF r.kind = "raise" THEN r
            ELSE EditList(strings, i + 1, Append(new_strings, r.val.v), p)

edit_string_size(strings, max_length, left_spaces, sformat, symbol) ==
    IF strings.t = "str"
    THEN Return(PyStr(EditStr(strings.v, max_length, left_spaces, sformat, symbol)))
    ELSE IF strings.t = "list"
    THEN EditList(strings.v, 1, <<>>,
                  [max_length |-> max_length, left_spaces |-> left_spaces])
    ELSE Raise("UnboundLocalError", <<>>)

(***************************************************************************)
(* print_separators (lines 265-271): the line printed.                     *)
(***************************************************************************)
print_separators(symbol, length) == Rep(symbol, length)

(***************************************************************************)
(* get_proper_str (lines 234-248).                                         *)
(***************************************************************************)
ProperStrMax == 45
ProperStrKeep == 42
Ellipsis == <<".", ".", ".">>

\* get_proper_str keeping the start of the str whatever end says.
get_proper_str_KeepsStart(str_option, end) ==
    IF Len(str_option) > ProperStrMax
    THEN FirstChars(str_option, ProperStrKeep) \o Ellipsis
    ELSE str_option

get_proper_str(str_option, end) ==
    IF Len(str_option) > ProperStrMax
    THEN IF end THEN Ellipsis \o LastChars(str_option, ProperStrKeep)
         ELSE FirstChars(str_option, ProperStrKeep) \o Ellipsis
    ELSE str_option

(***************************************************************************)
(* get_option_list (lines 216-231).                                        *)
(***************************************************************************)
StrAll == <<"a", "l", "l">>
StrNan == <<"n", "a", "n">>

\* get_option_list without the 'nan' case.
get_option_list_NoNan(string) ==
    IF ~Truthy(string) THEN PyNone
    ELSE IF string.v = StrAll THEN PyStr(StrAll)
    ELSE PyList(Split(string.v, ","))

get_option_list(string) ==
    IF ~Truthy(string) THEN PyNone
    ELSE IF string.v = StrAll THEN PyStr(StrAll)
    ELSE IF string.v = StrNan THEN PyNone
    ELSE PyList(Split(string.v, ","))


(***************************************************************************)
(* main_display (lines 58-70) and print_end (lines 274-281).  Each makes   *)
(* one call of edit_string_size for the name; NameCall is that call's      *)
(* arguments.  In Python 2, / on two ints is floor division.               *)
(***************************************************************************)
MainDisplayNameCall(name) ==
    [strings |-> PyStr(name), max_length |-> LENGTH - 4,
     left_spaces |-> (LENGTH - Len(name)) \div 2,
     sformat |-> DefaultFormat, symbol |-> Space]

PrintEndNameCall(name) ==
    [strings |-> PyStr(name), max_length |-> LENGTH - 6,
     left_spaces |-> (LENGTH - 6 - Len(name)) \div 2,
     sformat |-> DoneFormat, symbol |-> <<"=">>]

ApplyEdit(c) ==
    edit_string_size(c.strings, c.max_length, c.left_spaces, c.sformat, c.symbol)

\* What main_display prints: DISPLAY_TEMPLATE with its two fields filled in,
\* then a line of '-'; nothing when formatting the description raises.
main_display(name, description) ==
    LET _name == ApplyEdit(MainDisplayNameCall(name))
        _desc == edit_string_size(description, LENGTH - 4, 4, DefaultFormat, Space)
    IN IF _desc.kind = "raise"
       THEN [ret |-> _desc, out |-> <<>>]
       ELSE [ret |-> Return(PyNone),
             out |-> <<[t |-> "DISPLAY_TEMPLATE", name |-> _name.val.v,
                        description |-> _desc.val.v],
                       [t |-> "line", text |-> print_separators(<<"-">>, LENGTH)]>>]

print_end(name) ==
    [ret |-> Return(PyNone),
     out |-> <<[t |-> "line", text |-> ApplyEdit(PrintEndNameCall(name)).val.v],
               [t |-> "line", text |-> <<"\n">>]>>]

(***************************************************************************)
(* args_display (lines 73-93).  vars(args) is a dict: order is the order   *)
(* in which items() yields its keys, which Python 2 leaves unspecified.    *)
(***************************************************************************)
\* _format % (-15, key.replace('_', ' '), -45, shown)
ArgLine(key, shown) ==
    Rep(Space, 4) \o Ljust(Replace(key, "_", " "), 15) \o <<" ", "-", ">", " ">>
        \o Ljust(shown, 45)

StrOn == <<"o", "n">>

\* The lines one (key, value) item appends to _args.
ArgItem(key, val) ==
    IF val.t = "bool"
    THEN IF val.v THEN <<ArgLine(key, StrOn)>> ELSE <<>>
    ELSE IF Truthy(val) THEN <<ArgLine(key, get_proper_str(val.v, TRUE))>> ELSE <<>>

RECURSIVE ArgLines(_, _)
ArgLines(argvars, order) ==
    IF order = <<>> THEN <<>>
    ELSE ArgItem(Head(order), argvars[Head(order)]) \o ArgLines(argvars, Tail(order))

args_display(argvars, order) ==
    [ret |-> Return(PyNone),
     out |-> <<[t |-> "ARGS_DISPLAY", args |-> Join(<<"\n">>, ArgLines(argvars, order))],
               [t |-> "line", text |-> print_separators(<<"-">>, LENGTH)]>>]

(***************************************************************************)
(* Inputs.                                                                 *)
(***************************************************************************)
Text(n) == [i \in 1..n |-> "x"]
Name(n) == [i \in 1..n |-> "N"]

PatternChars == <<"a", "b", "c", "d", "e", "f", "g">>
Pattern(n) == [i \in 1..n |-> PatternChars[(i % Len(PatternChars)) + 1]]

\* The 'strings' arguments tried: strs, lists of strs (one of them holding a
\* value that is no str), and values that are neither.
EditInputs ==
    {PyStr(Text(n)) : n \in 0..MaxTextLen}
      \cup {PyList(<<>>), PyList(<<PyStr(Text(2))>>),
            PyList(<<PyStr(Text(1)), PyStr(Text(MaxTextLen))>>),
            PyList(<<PyStr(Text(1)), PyInt(7)>>)}
      \cup {PyNone, PyInt(5), PyTuple(<<PyStr(Text(1))>>)}

EditWidths == {10, LENGTH - 6, LENGTH - 4}
EditFrames == {[sformat |-> DefaultFormat, symbol |-> Space],
               [sformat |-> DoneFormat, symbol |-> <<"=">>]}

OptionChars == {"a", "l", "n", ","}
RECURSIVE StrsUpTo(_, _)
\* The strs of at most n characters of the set chars.
StrsUpTo(chars, n) ==
    IF n = 0 THEN {<<>>}
    ELSE LET shorter == StrsUpTo(chars, n - 1)
         IN shorter \cup {Append(s, c) : s \in shorter, c \in chars}

OptionInputs == {PyNone} \cup {PyStr(s) : s \in StrsUpTo(OptionChars, MaxOptionLen)}

KeyHost == <<"h", "o", "s", "t">>
KeyNoWarn == <<"n", "o", "_", "w", "a", "r", "n">>
ArgKeys == {KeyHost, KeyNoWarn}
ArgOrders == {<<KeyHost, KeyNoWarn>>, <<KeyNoWarn, KeyHost>>}
\* The values an option of the parsed-arguments record holds: None, a bool
\* or a str.
ArgValues ==
    {PyNone, PyBool(TRUE), PyBool(FALSE), PyStr(<<>>), PyStr(Pattern(1))}
      \cup {PyStr(Pattern(n)) : n \in (ProperStrKeep + 1)..MaxValueLen}

(***************************************************************************)
(* A call of a function that runs to its end in one step.  A behaviour is   *)
(* one call: the tools are processes that call these helpers and exit.     *)
(***************************************************************************)
Idle == pc = "idle"

Finished(f, a, r, o, c) ==
    /\ fn' = f
    /\ args' = a
    /\ ret' = r
    /\ out' = o
    /\ inner' = c
    /\ fsops' = <<>>
    /\ pc' = "done"
    /\ value' = <<>>
    /\ answers' = <<>>
    /\ events' = <<>>
    /\ parsed' = PyNone
    /\ run' = PyNone
    /\ UNCHANGED fs

CallEditStringSize ==
    /\ Idle
    /\ \E strings \in EditInputs, max_length \in EditWidths,
          left_spaces \in 0..MaxLeftSpaces, frame \in EditFrames :
          LET a == [strings |-> strings, max_length |-> max_length,
                    left_spaces |-> left_spaces, sformat |-> frame.sformat,
                    symbol |-> frame.symbol]
          IN Finished("edit_string_size", a, ApplyEdit(a), <<>>, NoInner)

CallGetOptionList ==
    /\ Idle
    /\ \E string \in OptionInputs :
          Finished("get_option_list", [string |-> string],
                   Return(get_option_list(string)), <<>>, NoInner)

CallMainDisplay ==
    /\ Idle
    /\ \E n \in 0..MaxNameLen, description \in {PyStr(Text(3)), PyList(<<PyStr(Text(3))>>)} :
          LET r == main_display(Name(n), description)
          IN Finished("main_display", [name |-> Name(n), description |-> description],
                      r.ret, r.out, MainDisplayNameCall(Name(n)))

CallPrintEnd ==
    /\ Idle
    /\ \E n \in 0..MaxNameLen :
          LET r == print_end(Name(n))
          IN Finished("print_end", [name |-> Name(n)], r.ret, r.out,
                      PrintEndNameCall(Name(n)))

CallArgsDisplay ==
    /\ Idle
    /\ \E argvars \in [ArgKeys -> ArgValues], order \in ArgOrders :
          LET r == args_display(argvars, order)
          IN Finished("args_display", [args |-> argvars], r.ret, r.out, NoInner)

(***************************************************************************)
(* prompt_user_yes_no (lines 251-262), a step per evaluation of the while  *)
(* condition and per raw_input.  answers is the history of what the user   *)
(* typed during the call.                                                  *)
(***************************************************************************)
StrYes == <<"y", "e", "s">>
StrNo == <<"n", "o">>
StrY == <<"y">>
StrN == <<"n">>

\* The loop condition comparing the answer as typed.
LoopExits_CaseSensitive(v) == v \in {StrYes, StrNo, StrN, StrY}

\* The negation of the while condition of line 257.
LoopExits(v) == Lower(v) \in {StrYes, StrNo, StrN, StrY}

\* Lines 259-262.
PromptResult(v) == IF Lower(v) \in {StrYes, StrY} THEN PyBool(TRUE) ELSE PyBool(FALSE)

Answers ==
    {<<>>, StrY, StrN, StrYes, StrNo, <<"Y">>, <<"N">>, <<"Y", "E", "S">>,
     <<"N", "o">>, <<"y", "E", "s">>, <<"y", "e">>, <<"y", "e", "s", "s">>,
     <<" ", "y">>, <<"o", "k">>}

Running == [kind |-> "running"]

CallPrompt ==
    /\ Idle
    /\ fn' = "prompt_user_yes_no"
    /\ args' = [question |-> <<"?">>]
    /\ ret' = Running
    /\ value' = <<>>
    /\ answers' = <<>>
    /\ pc' = "while"
    /\ UNCHANGED <<out, inner, fs, fsops, events, parsed, run>>

PromptWhile ==
    /\ fn = "prompt_user_yes_no"
    /\ pc = "while"
    /\ IF LoopExits(value)
       THEN /\ pc' = "done"
            /\ ret' = Return(PromptResult(value))
       ELSE /\ pc' = "raw_input"
            /\ ret' = ret
    /\ UNCHANGED <<fn, args, out, inner, fs, fsops, value, answers, events, parsed, run>>

PromptRawInput ==
    /\ fn = "prompt_user_yes_no"
    /\ pc = "raw_input"
    /\ Len(answers) < MaxAnswers
    /\ \E a \in Answers :
          /\ value' = a
          /\ answers' = Append(answers, a)
    /\ out' = Append(out, [t |-> "prompt", text |-> args.question])
    /\ pc' = "while"
    /\ UNCHANGED <<fn, args, ret, inner, fs, fsops, events, parsed, run>>

(***************************************************************************)
(* run_tool (lines 96-120) with parse_args (lines 37-55) inlined, a step   *)
(* per call it makes.  events is the history of those calls.  The          *)
(* callbacks (add_tools_arguments, check_arguments, run_tool_fct) and      *)
(* argparse's parse_args return or raise as they choose.                   *)
(***************************************************************************)
Event(call, a) == [call |-> call, a |-> a]

\* Lines 115-119: whether run_tool_fct is called, run being what
\* check_arguments returned when there is one.
InitialRun == PyBool(TRUE)
\* run_tool_fct called whatever check_arguments returned.
RunGate_Always(r) == TRUE
RunGate(r) == Truthy(r)

Scripts == {Name(4), Name(MaxNameLen)}
Purposes == {PyStr(Text(3)), PyList(<<PyStr(Text(3)), PyStr(Text(2))>>), PyNone}
ExtraDisplays == {PyBool(FALSE), PyStr(Text(2))}
CheckArguments == {PyNone, PyFunction}
ParsedArgs ==
    {[k \in ArgKeys |-> IF k = KeyHost THEN h ELSE w] :
        h \in {PyNone, PyStr(Pattern(MaxValueLen))}, w \in {PyBool(TRUE), PyBool(FALSE)}}
CheckResults == {PyBool(TRUE), PyBool(FALSE), PyNone, PyInt(0), PyStr(Text(2))}

RunToolRaises(e) ==
    /\ pc' = "raised"
    /\ ret' = Raise(e, <<>>)

CallRunTool ==
    /\ Idle
    /\ fn' = "run_tool"
    /\ \E script \in Scripts, purpose \in Purposes, extra \in ExtraDisplays,
          check \in CheckArguments :
          args' = [script |-> script, purpose |-> purpose, extra_display |-> extra,
                   check_arguments |-> check]
    /\ ret' = Running
    /\ pc' = "add_tools_arguments"
    /\ UNCHANGED <<out, inner, fs, fsops, value, answers, events, parsed, run>>

\* Line 51.
AddToolsArguments ==
    /\ fn = "run_tool"
    /\ pc = "add_tools_arguments"
    /\ events' = Append(events, Event("add_tools_arguments", <<>>))
    /\ \/ pc' = "main_display" /\ ret' = ret
       \/ RunToolRaises("Exception")
    /\ UNCHANGED <<fn, args, out, inner, fs, fsops, value, answers, parsed, run>>

\* Line 52.
ParseMainDisplay ==
    /\ fn = "run_tool"
    /\ pc = "main_display"
    /\ events' = Append(events, Event("main_display", <<args.script, args.purpose>>))
    /\ LET r == main_display(args.script, args.purpose)
       IN /\ out' = out \o r.out
          /\ IF r.ret.kind = "raise"
             THEN pc' = "raised" /\ ret' = r.ret
             ELSE pc' = "parser.parse_args" /\ ret' = ret
    /\ UNCHANGED <<fn, args, inner, fs, fsops, value, answers, parsed, run>>

\* Line 53: argparse returns the parsed record, or exits (--help, an error
\* in the command line).
ParserParseArgs ==
    /\ fn = "run_tool"
    /\ pc = "parser.parse_args"
    /\ events' = Append(events, Event("parser.parse_args", <<>>))
    /\ \/ /\ \E a \in ParsedArgs : parsed' = [t |-> "Namespace", v |-> a]
          /\ pc' = "args_display"
          /\ ret' = ret
       \/ /\ RunToolRaises("SystemExit")
          /\ parsed' = parsed
    /\ UNCHANGED <<fn, args, out, inner, fs, fsops, value, answers, run>>

\* Lines 54-55.
ParseArgsDisplay ==
    /\ fn = "run_tool"
    /\ pc = "args_display"
    /\ events' = Append(events, Event("args_display", <<parsed>>))
    /\ \E order \in ArgOrders : out' = out \o args_display(parsed.v, order).out
    /\ pc' = "extra_display"
    /\ UNCHANGED <<fn, args, ret, inner, fs, fsops, value, answers, parsed, run>>

\* Lines 112-115.
ExtraDisplay ==
    /\ fn = "run_tool"
    /\ pc = "extra_display"
    /\ out' = IF Truthy(args.extra_display)
              THEN Append(out, [t |-> "line", text |-> args.extra_display.v])
              ELSE out
    /\ run' = InitialRun
    /\ pc' = "check_arguments"
    /\ UNCHANGED <<fn, args, ret, inner, fs, fsops, value, answers, events, parsed>>

\* Lines 116-117.
CheckArgumentsStep ==
    /\ fn = "run_tool"
    /\ pc = "check_arguments"
    /\ IF Truthy(args.check_arguments)
       THEN /\ events' = Append(events, Event("check_arguments", <<args.script, parsed>>))
            /\ \/ /\ \E r \in CheckResults : run' = r
                  /\ pc' = "run_tool_fct"
                  /\ ret' = ret
               \/ /\ RunToolRaises("XnatToolsUserError")
                  /\ run' = run
       ELSE /\ pc' = "run_tool_fct"
            /\ UNCHANGED <<events, run, ret>>
    /\ UNCHANGED <<fn, args, out, inner, fs, fsops, value, answers, parsed>>

\* Lines 119-120.
RunToolFct ==
    /\ fn = "run_tool"
    /\ pc = "run_tool_fct"
    /\ IF RunGate(run)
       THEN /\ events' = Append(events, Event("run_tool_fct", <<parsed>>))
            /\ \/ pc' = "done" /\ ret' = Return(PyNone)
               \/ RunToolRaises("Exception")
       ELSE /\ pc' = "done"
            /\ ret' = Return(PyNone)
            /\ events' = events
    /\ UNCHANGED <<fn, args, out, inner, fs, fsops, value, answers, parsed, run>>

(***************************************************************************)
(* The file system: the content of each regular file and the directories.  *)
(***************************************************************************)
\* os.path.exists(path)
Exists(f, path) == path \in DOMAIN f.files \/ path \in f.dirs

\* The lines iterating over an open text file yields: each ends with its
\* "\n", but for a last line the file does not terminate.
RECURSIVE FileLines(_)
FileLines(content) ==
    IF content = <<>> THEN <<>>
    ELSE IF \A i \in 1..Len(content) : content[i] # "\n" THEN <<content>>
    ELSE LET i == CHOOSE k \in 1..Len(content) :
                      content[k] = "\n" /\ \A j \in 1..(k - 1) : content[j] # "\n"
         IN <<SubSeq(content, 1, i)>> \o FileLines(SubSeq(content, i + 1, Len(content)))

\* os.path.dirname(path) of posixpath.
RECURSIVE RStripSlash(_)
RStripSlash(s) == IF s # <<>> /\ s[Len(s)] = "/" THEN RStripSlash(DropLast(s)) ELSE s
Dirname(path) ==
    LET slashes == {k \in 1..Len(path) : path[k] = "/"}
        i == IF slashes = {} THEN 0 ELSE CHOOSE k \in slashes : \A j \in slashes : j <= k
        dirpart == SubSeq(path, 1, i)
    IN IF dirpart # <<>> /\ \E k \in 1..Len(dirpart) : dirpart[k] # "/"
       THEN RStripSlash(dirpart) ELSE dirpart

RECURSIVE Concat(_)
\* What writing each element of strs in turn leaves in a file.
Concat(strs) == IF strs = <<>> THEN <<>> ELSE Head(strs) \o Concat(Tail(strs))

FsOp(op, path) == [op |-> op, path |-> path]

(***************************************************************************)
(* read_txt (lines 173-193).                                               *)
(***************************************************************************)
\* Line 190: what one line of the file appends to obj_list.
ReadLine(line) == Split(Strip(line), "\n")[1]

\* Lines 188-190.
ReadLines(content) == [i \in 1..Len(FileLines(content)) |-> PyStr(ReadLine(FileLines(content)[i]))]

InfoExport(txt_file) == [t |-> "INFO: Export data from text file", text |-> txt_file]

\* read_txt returning an empty list when no path is given.
read_txt_EmptyListForNoPath(txt_file, exe_name, f) ==
    IF Truthy(txt_file)
    THEN IF ~Exists(f, txt_file.v)
         THEN [ret |-> Raise("XnatToolsUserError", exe_name),
               out |-> <<InfoExport(txt_file.v)>>,
               fsops |-> <<FsOp("exists", txt_file.v)>>]
         ELSE [ret |-> Return(PyList(ReadLines(f.files[txt_file.v]))),
               out |-> <<InfoExport(txt_file.v)>>,
               fsops |-> <<FsOp("exists", txt_file.v), FsOp("open", txt_file.v),
                           FsOp("read", txt_file.v), FsOp("close", txt_file.v)>>]
    ELSE [ret |-> Return(PyList(<<>>)), out |-> <<>>, fsops |-> <<>>]

read_txt(txt_file, exe_name, f) ==
    IF Truthy(txt_file)
    THEN IF ~Exists(f, txt_file.v)
         THEN [ret |-> Raise("XnatToolsUserError", exe_name),
               out |-> <<InfoExport(txt_file.v)>>,
               fsops |-> <<FsOp("exists", txt_file.v)>>]
         ELSE IF txt_file.v \in f.dirs
         THEN [ret |-> Raise("IOError", <<>>),
               out |-> <<InfoExport(txt_file.v)>>,
               fsops |-> <<FsOp("exists", txt_file.v), FsOp("open", txt_file.v)>>]
         ELSE [ret |-> Return(PyList(ReadLines(f.files[txt_file.v]))),
               out |-> <<InfoExport(txt_file.v)>>,
               fsops |-> <<FsOp("exists", txt_file.v), FsOp("open", txt_file.v),
                           FsOp("read", txt_file.v), FsOp("close", txt_file.v)>>]
    ELSE [ret |-> Return(PyNone), out |-> <<>>, fsops |-> <<>>]

(***************************************************************************)
(* write_csv (lines 196-213).  Line 207 reads os.path.basedir, which is no *)
(* attribute of os.path (the function is os.path.dirname): the attribute   *)
(* lookup raises AttributeError in every call, before anything else is     *)
(* done with the file system.                                              *)
(***************************************************************************)
OsPathAttributes == {"exists", "dirname", "basename", "join", "isdir", "isfile"}

InfoWriting == [t |-> "INFO: Writing report ...", text |-> <<>>]

write_csv(csv_string, csv_file, exe_name, f) ==
    IF "basedir" \notin OsPathAttributes
    THEN [ret |-> Raise("AttributeError", <<>>), out |-> <<InfoWriting>>,
          fsops |-> <<>>, fs |-> f]
    ELSE LET basedir == Dirname(csv_file)
         IN IF ~Exists(f, basedir)
            THEN [ret |-> Raise("XnatToolsUserError", exe_name), out |-> <<InfoWriting>>,
                  fsops |-> <<FsOp("exists", basedir)>>, fs |-> f]
            ELSE [ret |-> Return(PyNone), out |-> <<InfoWriting>>,
                  fsops |-> <<FsOp("exists", basedir), FsOp("open", csv_file),
                              FsOp("write", csv_file), FsOp("close", csv_file)>>,
                  fs |-> [f EXCEPT !.files =
                             [q \in DOMAIN f.files \cup {csv_file} |->
                                 IF q = csv_file THEN Concat(csv_string) ELSE f.files[q]]]]

(***************************************************************************)
(* Inputs of the file helpers.                                             *)
(***************************************************************************)
PathFile == <<"f">>
PathGone == <<"g">>
PathDir == <<"d">>
FileChars == {"a", " ", "\n"}
FileContents == StrsUpTo(FileChars, MaxFileLen)

TxtFiles == {PyNone, PyStr(<<>>), PyStr(PathFile), PyStr(PathGone), PyStr(PathDir)}
ExeNames == {<<>>, <<"X">>}

CsvFiles == {<<"r">>, <<"d", "/", "r">>, <<"n", "/", "r">>, PathFile}
CsvLines == {<<"a", ",", "b", "\n">>, <<"c">>}
RECURSIVE SeqsUpTo(_, _)
SeqsUpTo(S, n) ==
    IF n = 0 THEN {<<>>}
    ELSE LET shorter == SeqsUpTo(S, n - 1)
         IN shorter \cup {Append(q, x) : q \in shorter, x \in S}
CsvStrings == SeqsUpTo(CsvLines, MaxCsvLines)

FinishedFile(f, a, r) ==
    /\ fn' = f
    /\ args' = a
    /\ ret' = r.ret
    /\ out' = r.out
    /\ fsops' = r.fsops
    /\ pc' = "done"
    /\ UNCHANGED <<inner, value, answers, events, parsed, run>>

CallReadTxt ==
    /\ Idle
    /\ \E txt_file \in TxtFiles, exe_name \in ExeNames :
          FinishedFile("read_txt", [txt_file |-> txt_file, exe_name |-> exe_name],
                       read_txt(txt_file, exe_name, fs))
    /\ UNCHANGED fs

CallWriteCsv ==
    /\ Idle
    /\ \E csv_string \in CsvStrings, csv_file \in CsvFiles, exe_name \in ExeNames :
          LET r == write_csv(csv_string, csv_file, exe_name, fs)
          IN /\ FinishedFile("write_csv",
                             [csv_string |-> csv_string, csv_file |-> csv_file,
                              exe_name |-> exe_name], r)
             /\ fs' = r.fs

Init ==
    /\ fn = "none"
    /\ args = NoArgs
    /\ ret = Return(PyNone)
    /\ out = <<>>
    /\ inner = NoInner
    /\ fs = [files |-> <<>>, dirs |-> {}]
    /\ fsops = <<>>
    /\ pc = "idle"
    /\ value = <<>>
    /\ answers = <<>>
    /\ events = <<>>
    /\ parsed = PyNone
    /\ run = PyNone

Next ==
    \/ CallEditStringSize
    \/ CallGetOptionList
    \/ CallMainDisplay
    \/ CallPrintEnd
    \/ CallArgsDisplay
    \/ CallPrompt
    \/ PromptWhile
    \/ PromptRawInput
    \/ CallRunTool
    \/ AddToolsArguments
    \/ ParseMainDisplay
    \/ ParserParseArgs
    \/ ParseArgsDisplay
    \/ ExtraDisplay
    \/ CheckArgumentsStep
    \/ RunToolFct

Spec == Init /\ [][Next]_vars

(***************************************************************************)
(* The file helpers, called in a file system that holds one text file and  *)
(* one directory.                                                          *)
(***************************************************************************)
InitFiles ==
    /\ fn = "none"
    /\ args = NoArgs
    /\ ret = Return(PyNone)
    /\ out = <<>>
    /\ inner = NoInner
    /\ \E content \in FileContents :
          fs = [files |-> (PathFile :> content), dirs |-> {PathDir}]
    /\ fsops = <<>>
    /\ pc = "idle"
    /\ value = <<>>
    /\ answers = <<>>
    /\ events = <<>>
    /\ parsed = PyNone
    /\ run = PyNone

NextFiles ==
    \/ CallReadTxt
    \/ CallWriteCsv

FileSpec == InitFiles /\ [][NextFiles]_vars


(***************************************************************************)
(* Properties.                                                             *)
(***************************************************************************)
\* The number of literal characters of a format (all but its conversions).
FrameChars(sformat) == Cardinality({i \in 1..Len(sformat) : sformat[i] # "%s"})

IsEditOfStr == fn = "edit_string_size" /\ args.strings.t = "str"

\* C1: every line edit_string_size returns for a single str has a body of
\* exactly max_length characters between the frame characters (64 characters
\* in all with the defaults), whatever the length of the text.
C1_FixedWidth ==
    IsEditOfStr /\ args.left_spaces >= 0 /\ ret.kind = "return"
        => Len(ret.val.v) = args.max_length + FrameChars(args.sformat)

\* The stripped text of the lines of content that are not blank, in order.
RECURSIVE NonBlankTrimmed(_)
NonBlankTrimmed(lines) ==
    IF lines = <<>> THEN <<>>
    ELSE IF Strip(Head(lines)) = <<>> THEN NonBlankTrimmed(Tail(lines))
    ELSE <<PyStr(Strip(Head(lines)))>> \o NonBlankTrimmed(Tail(lines))

ReadTxtOfFile == fn = "read_txt" /\ args.txt_file = PyStr(PathFile) /\ ret.kind = "return"

\* C2: read_txt on an existing file returns the stripped non-blank lines of
\* the file in file order, and no empty string.
C2_NonEmptyTrimmedLines ==
    ReadTxtOfFile
        => /\ ret.val.t = "list"
           /\ \A i \in 1..Len(ret.val.v) : ret.val.v[i].v # <<>>
           /\ ret.val.v = NonBlankTrimmed(FileLines(fs.files[PathFile]))

TouchesFile(ops) == \E i \in 1..Len(ops) : ops[i].op \in {"open", "write"}

\* C3: write_csv raises XnatToolsUserError tagged with exe_name, touching no
\* file, when the parent directory of csv_file does not exist; otherwise it
\* leaves in csv_file the concatenation of the elements of csv_string.
C3_WriteCsvContract ==
    fn = "write_csv"
        => IF ~Exists(fs, Dirname(args.csv_file))
           THEN /\ ret = Raise("XnatToolsUserError", args.exe_name)
                /\ ~TouchesFile(fsops)
           ELSE /\ ret.kind = "return"
                /\ args.csv_file \in DOMAIN fs.files
                /\ fs.files[args.csv_file] = Concat(args.csv_string)

\* C4: edit_string_size given neither a str nor a list raises XnatToolsError
\* and fails in no other way.
C4_WrongTypeRaisesXnatToolsError ==
    fn = "edit_string_size" /\ args.strings.t \notin {"str", "list"}
        => ret.kind = "raise" /\ ret.exc = "XnatToolsError"

NoPathGiven(p) == p.t = "None" \/ (p.t = "str" /\ p.v = <<>>)

\* C5: read_txt returns None for a null or empty path without touching the
\* file system, and for a non-empty path that does not exist raises
\* XnatToolsUserError carrying the caller's exe_name without opening a file.
C5_NoFileVersusMissingFile ==
    fn = "read_txt"
        => /\ NoPathGiven(args.txt_file) => ret = Return(PyNone) /\ fsops = <<>>
           /\ ~NoPathGiven(args.txt_file) /\ ~Exists(fs, args.txt_file.v)
                 => /\ ret = Raise("XnatToolsUserError", args.exe_name)
                    /\ ~TouchesFile(fsops)

C5_Witness ==
    /\ fn = "read_txt"
    /\ args.txt_file = PyStr(PathGone)
    /\ args.exe_name = <<"X">>
    /\ ret.kind = "raise"
    /\ fs.files[PathFile] # <<>>

\* The option lines args_display printed under "Arguments:".
OptionLines == IF out[1].args = <<>> THEN <<>> ELSE Split(out[1].args, "\n")

IsShown(v) == (v.t = "bool" /\ v.v) \/ (v.t = "str" /\ v.v # <<>>)

\* What the claim says an option's value is rendered as.
Rendered(v) ==
    IF v.t = "bool" THEN StrOn
    ELSE IF Len(v.v) <= 45 THEN v.v
    ELSE Ellipsis \o SubSeq(v.v, Len(v.v) - 41, Len(v.v))

\* line is the line of option key, showing the text shown: the key in
\* columns 5-19, " -> ", and from column 24 the text, then only blanks.
ShowsOption(line, key, shown) ==
    /\ Len(line) >= 23 + Len(shown)
    /\ SubSeq(line, 5, 4 + Len(key)) = Replace(key, "_", " ")
    /\ SubSeq(line, 24, 23 + Len(shown)) = shown
    /\ \A i \in (24 + Len(shown))..Len(line) : line[i] = " "

\* C6: args_display prints one line per option whose value is truthy and
\* none for the others: 'on' for a True bool, the value itself when it has at
\* most 45 characters, else the 45 characters '...' + its last 42.
C6_ArgsDisplayLines ==
    fn = "args_display"
        => LET shownKeys == {k \in ArgKeys : IsShown(args.args[k])}
           IN /\ Len(OptionLines) = Cardinality(shownKeys)
              /\ \A k \in shownKeys :
                    /\ Cardinality({i \in 1..Len(OptionLines) :
                          ShowsOption(OptionLines[i], k, Rendered(args.args[k]))}) = 1
                    /\ Len(Rendered(args.args[k])) <= 45

C6_Witness ==
    /\ fn = "args_display"
    /\ args.args[KeyHost] = PyStr(Pattern(MaxValueLen))
    /\ args.args[KeyNoWarn] = PyBool(TRUE)
    /\ Len(OptionLines) = 2
    /\ Len(Rendered(args.args[KeyHost])) = 45

IsYesNo(a) == Lower(a) \in {StrYes, StrNo, StrY, StrN}
Last(q) == q[Len(q)]

\* C7: prompt_user_yes_no asks again while no answer given so far is one of
\* yes, no, y, n (in any case), returns right after the first answer that
\* is, asking nothing more, and returns True exactly for yes or y and False
\* exactly for no or n; it does not return without such an answer.
C7_PromptUntilYesNo ==
    fn = "prompt_user_yes_no"
        => /\ (ret.kind = "return") = (pc = "done")
           /\ \A i \in 1..(Len(answers) - 1) : ~IsYesNo(answers[i])
           /\ pc = "raw_input" => \A i \in 1..Len(answers) : ~IsYesNo(answers[i])
           /\ pc = "done"
                 => /\ Len(answers) >= 1
                    /\ IsYesNo(Last(answers))
                    /\ ret.val.t = "bool"
                    /\ ret.val.v = TRUE <=> Lower(Last(answers)) \in {StrYes, StrY}
                    /\ ret.val.v = FALSE <=> Lower(Last(answers)) \in {StrNo, StrN}

C7_Witness ==
    /\ fn = "prompt_user_yes_no"
    /\ pc = "done"
    /\ Len(answers) = MaxAnswers
    /\ answers[1] = <<>>
    /\ Last(answers) = <<"Y", "E", "S">>
    /\ ret = Return(PyBool(TRUE))

\* C8: get_option_list returns None for None and '', 'all' for 'all', None
\* for 'nan', and for any other str the list of its comma-separated tokens,
\* which joined with ',' give the str back.
C8_OptionList ==
    fn = "get_option_list"
        => LET s == args.string
               r == ret.val
           IN IF s.t = "None" THEN r = PyNone
              ELSE IF s.v = <<>> THEN r = PyNone
              ELSE IF s.v = StrAll THEN r = PyStr(StrAll)
              ELSE IF s.v = StrNan THEN r = PyNone
              ELSE /\ r.t = "list"
                   /\ Join(<<",">>, r.v) = s.v
                   /\ \A i \in 1..Len(r.v) : \A j \in 1..Len(r.v[i]) : r.v[i][j] # ","
                   /\ Len(r.v) = Cardinality({j \in 1..Len(s.v) : s.v[j] = ","}) + 1

C8_Witness ==
    /\ fn = "get_option_list"
    /\ args.string = PyStr(<<"a", ",", "l">>)
    /\ ret.val = PyList(<<<<"a">>, <<"l">>>>)

\* The number of characters of a line before the first character of the
\* name (names are made of "N").
LeadFill(line) ==
    (CHOOSE i \in 1..Len(line) : line[i] = "N" /\ \A j \in 1..(i - 1) : line[j] # "N") - 1

\* The name line of the banner, without the characters of the frame that
\* precede the body.
BannerBody ==
    IF fn = "main_display" THEN SubSeq(out[1].name, 3, Len(out[1].name))
    ELSE out[1].text

\* C9: in the banners of main_display and print_end the name is preceded by
\* floor((max_width - len(name)) / 2) fill characters, max_width being the
\* max_length the call gives edit_string_size.
C9_Centering ==
    fn \in {"main_display", "print_end"} /\ ret.kind = "return" /\ Len(args.name) >= 1
        => LeadFill(BannerBody) = (inner.max_length - Len(args.name)) \div 2

Calls(c) == {i \in 1..Len(events) : events[i].call = c}
CheckSupplied == args.check_arguments.t = "function"

\* Event i comes after the banner, the parse and the echo, in that order.
AfterParsing(i) ==
    \E b, p, e \in 1..Len(events) :
        /\ b < p /\ p < e /\ e < i
        /\ events[b].call = "main_display"
        /\ events[p].call = "parser.parse_args"
        /\ events[e].call = "args_display"

\* C10: run_tool parses first (banner, parse, echo); calls check_arguments,
\* when supplied, once with the script and the parsed arguments, after the
\* parsing and before run_tool_fct; calls run_tool_fct at most once, with the
\* parsed arguments, if and only if check_arguments is absent or returned a
\* truthy value; and never when parsing or check_arguments raises.
C10_RunToolOrder ==
    fn = "run_tool"
        => /\ Cardinality(Calls("check_arguments")) <= 1
           /\ Cardinality(Calls("run_tool_fct")) <= 1
           /\ \A i \in Calls("check_arguments") :
                 /\ CheckSupplied
                 /\ AfterParsing(i)
                 /\ events[i].a = <<args.script, parsed>>
                 /\ \A j \in Calls("run_tool_fct") : i < j
           /\ \A i \in Calls("run_tool_fct") :
                 /\ AfterParsing(i)
                 /\ events[i].a = <<parsed>>
                 /\ parsed.t = "Namespace"
                 /\ CheckSupplied => Calls("check_arguments") # {} /\ Truthy(run)
           /\ pc = "done"
                 => /\ CheckSupplied => Cardinality(Calls("check_arguments")) = 1
                    /\ Calls("run_tool_fct") # {} <=> (~CheckSupplied \/ Truthy(run))
           /\ pc = "raised" /\ Last(events).call # "run_tool_fct"
                 => Calls("run_tool_fct") = {}

C10_Witness ==
    /\ fn = "run_tool"
    /\ pc = "done"
    /\ CheckSupplied
    /\ run = PyStr(Text(2))
    /\ Calls("check_arguments") = {5}
    /\ Calls("run_tool_fct") = {6}

=============================================================================
